---- MODULE Spec2Model ----
(***************************************************************************)
(* WebMCP tool registry (src/lib/webmcp.ts, both the legacy                *)
(* parameters/handler revision and the W3C inputSchema/execute revision).  *)
(*                                                                         *)
(* The registry is a JavaScript Map from tool name to tool definition and  *)
(* one auth context record.  Every registry method is synchronous, so each *)
(* method is one atomic action.  navigator.modelContext (the capability    *)
(* surface) is an external object: it is modelled by the stub the tests    *)
(* install (a Map with set/delete), whose registerTool may also throw.     *)
(***************************************************************************)
EXTENDS Integers, Sequences, FiniteSets, TLC

VARIABLES
    tools,        \* WebMCPRegistry.tools: the Map, as its entries in insertion order
    authContext,  \* WebMCPRegistry.authContext: the internal record
    heap,         \* contents of the roles arrays, by reference
    got,          \* the object the caller holds from its last getAuthContext()
    nav,          \* globalThis.navigator, as the shape getModelContext() probes
    surf,         \* the surface's own tool map: name -> wrapper it was given
    calls,        \* the surface calls forwarded by the last operation, in order
    last,         \* the last operation: its name, arguments and outcome
    prev,         \* tools and surf as they were when the last operation began
    regFailed,    \* some registerTool call has thrown
    absentOp,     \* some registry operation ran while the surface was absent
    bound,        \* bindPluginLifecycle has subscribed the two listeners
    loadedBy,     \* per plugin, the names its last "plugin:loaded" registered
    inFlight,     \* tool invocations awaiting the response to their request
    settled,      \* the invocation that resolved or failed last
    now,          \* Date.now()
    toolsCtx,     \* the registry's context when the conversation tools were registered
    pluginCtx,    \* plugin.ts `ctx`: the plugin context, "null" while uninitialized
    cleanups,     \* plugin.ts: the cleanup functions init has pushed, in order
    servers,      \* per init that got past the guard, the HTTP server it started
    host,         \* what the host holds: config schema, web UI extension
    ran,          \* per registered cleanup, how many times it has been called
    procs         \* the shutdown() calls: where each one is in its loop

vars == <<tools, authContext, heap, got, nav, surf, calls, last, prev,
          regFailed, absentOp, bound, loadedBy, inFlight, settled, now,
          toolsCtx, pluginCtx, cleanups, servers, host, ran, procs>>

\* The state of the plugin lifecycle binding and of the conversation tools.
lifeVars == <<bound, loadedBy>>
convVars == <<inFlight, settled, now, toolsCtx>>
webuiVars == <<pluginCtx, cleanups, servers, host, ran, procs>>

-----------------------------------------------------------------------------
(* Values *)

Names == {"a", "b"}

Undefined == "undefined"

\* The value get() returns for a missing key, as a definition-shaped record.
NoDef == [name |-> Undefined, description |-> Undefined, handler |-> Undefined]

\* Definitions callers pass to register() directly: two under the name "a"
\* that differ in every other field, and one under "b".
DirectDefs ==
    { [name |-> "a", description |-> "first", handler |-> "h1"],
      [name |-> "a", description |-> "second", handler |-> "h2"],
      [name |-> "b", description |-> "first", handler |-> "h1"] }

\* AuthContext: userId is a string or undefined, roles an array reference or
\* undefined.
UserIds == {"before", "after"}
Refs == {"r1"}
RoleNames == {"viewer"}
MaxRoles == 2

EmptyContext == [userId |-> Undefined, roles |-> Undefined]

\* The objects callers pass to setAuthContext.
Contexts == [userId : UserIds, roles : Refs \cup {Undefined}]

\* The value a caller writes into a field of an object it was returned.
Mutated == "mutated"

\* What an observer sees of a context: its fields with the arrays read through.
Content(c, h) ==
    [userId |-> c.userId,
     roles  |-> IF c.roles = Undefined THEN <<>> ELSE h[c.roles]]

\* A wrapper forwarded to the surface.  The closure captures the tool given to
\* register and the registry itself; ctxAtCreation records the registry's
\* context when the closure was made.
NoWrapper == [tool |-> NoDef, ctxAtCreation |-> EmptyContext]

-----------------------------------------------------------------------------
(* Conversation tools: inputs, requests, responses *)

\* A JavaScript string is its sequence of characters; a value that is a
\* string or undefined carries its type.
JsUndefined == [t |-> "undefined", v |-> <<>>]
JsString(chars) == [t |-> "string", v |-> chars]

\* !x for a string or undefined.
Falsy(x) == x.t = "undefined" \/ x.v = <<>>

Hi == <<"H", "i">>
Slashed == <<"a", "/", "b">>
Default == <<"d", "e", "f", "a", "u", "l", "t">>
Ten == <<"1", "0">>
Opus == <<"o", "p", "u", "s">>

\* The input object of an invocation, with the properties the tools read.
NoInput ==
    [text |-> JsUndefined, sessionId |-> JsUndefined, limit |-> JsUndefined,
     model |-> JsUndefined]

\* The tools in the order registerConversationTools registers them.
ConversationOrder ==
    <<"sendMessage", "getConversation", "listSessions", "newSession", "getStatus">>

ConversationTools == { ConversationOrder[i] : i \in 1..Len(ConversationOrder) }

\* The definition registerConversationTools registers under name n; its
\* execute is the body of that tool.
ConversationDef(n) == [name |-> n, description |-> "conversation", handler |-> n]

\* auth.token of a context: undefined when the object has no such property.
Field(o, f) == IF f \in DOMAIN o THEN o[f] ELSE Undefined

\* The contexts callers set for the conversation tools.
Tokens == {"", "tok-123", "tok-abc"}
TokenContexts == [token : Tokens]

\* The Authorization header, or its absence.
NoAuthorization == [scheme |-> "none", credentials |-> ""]
Bearer(token) == [scheme |-> "Bearer", credentials |-> token]

\* `${apiBase}/sessions/${session}/inject`, /sessions/${session}/history${qs},
\* /sessions and /status, as the parts the template strings put together.
Url(resource, session, action, query) ==
    [base |-> "/api", resource |-> resource, session |-> session,
     action |-> action, query |-> query]

\* options.body: absent, or the JSON text of an object, held as that object.
NoBody == [kind |-> "none"]
InjectBody(text) == [kind |-> "inject", message |-> text]
SessionBody(name, context) == [kind |-> "session", name |-> name, context |-> context]

\* `session-${Date.now()}`
SessionName(t) == [prefix |-> "session-", stamp |-> t]

\* What fetch settles with: a rejection, or a response with a status and a
\* body that res.json() parses or fails to parse.
Unparseable == [json |-> "unparseable", hasError |-> FALSE, error |-> ""]
JsonNull == [json |-> "null", hasError |-> FALSE, error |-> ""]
JsonObject(hasError, error) ==
    [json |-> "object", hasError |-> hasError, error |-> error]

ResponseBodies ==
    { Unparseable, JsonNull, JsonObject(FALSE, ""),
      JsonObject(TRUE, "Session not found"), JsonObject(TRUE, "") }

NoResponse == [kind |-> "none", status |-> 0, body |-> Unparseable]
FetchRejects == [kind |-> "reject", status |-> 0, body |-> Unparseable]
Statuses == {200, 404, 500}
Responses ==
    {FetchRejects} \cup [kind : {"response"}, status : Statuses, body : ResponseBodies]

\* res.ok
Ok(status) == status \in 200..299

\* The message of the Error an invocation fails with.
NoMessage == [text |-> "", withStatus |-> FALSE, status |-> 0]
Message(text) == [text |-> text, withStatus |-> FALSE, status |-> 0]
\* `Request failed (${res.status})`
GenericMessage(status) ==
    [text |-> "Request failed", withStatus |-> TRUE, status |-> status]

\* How many invocations wait for their response at once.
MaxInFlight == 2

\* The last millisecond of the clock.
MaxNow == 2

\* An invocation: the tool, its input, the context its body read, the
\* requests it has passed to fetch, and how it has settled.  startCtx keeps
\* the registry's context of the moment execute was called.
NoInvocation ==
    [tool |-> Undefined, input |-> NoInput, auth |-> EmptyContext,
     requests |-> <<>>, state |-> "none", response |-> NoResponse,
     value |-> Unparseable, message |-> NoMessage, startCtx |-> EmptyContext]

-----------------------------------------------------------------------------
(* globalThis.navigator and the probe *)

\* The shape of the hosting environment: whether there is a navigator,
\* whether it has a modelContext, and the typeof of the modelContext's
\* registerTool and unregisterTool.
NavShapes ==
    [hasNavigator : BOOLEAN, hasModelContext : BOOLEAN,
     registerTool : {"function", "string", "undefined"},
     unregisterTool : {"function", "undefined"}]

NoNavigator ==
    [hasNavigator |-> FALSE, hasModelContext |-> FALSE,
     registerTool |-> "undefined", unregisterTool |-> "undefined"]

\* navigator.modelContext as installModelContext() of the tests builds it.
WithSurface ==
    [hasNavigator |-> TRUE, hasModelContext |-> TRUE,
     registerTool |-> "function", unregisterTool |-> "function"]

\* The environments that can exist: without a navigator there is no
\* modelContext, and without a modelContext there are no methods.
Navigators ==
    { nv \in NavShapes :
        /\ nv.hasModelContext => nv.hasNavigator
        /\ ~nv.hasModelContext =>
                (nv.registerTool = "undefined" /\ nv.unregisterTool = "undefined") }

\* Faulty variant: a probe that does not look at registerTool.
GetModelContextAnyObject(nv) == nv.hasNavigator /\ nv.hasModelContext

\* getModelContext() !== undefined
GetModelContext(nv) ==
    /\ nv.hasNavigator
    /\ nv.hasModelContext
    /\ nv.registerTool = "function"

\* mc is defined in the current environment.
present == GetModelContext(nav)

-----------------------------------------------------------------------------
(* Map<string, tool> *)

MapHas(m, k) == \E i \in 1..Len(m) : m[i].name = k

MapGet(m, k) ==
    IF MapHas(m, k)
    THEN m[CHOOSE i \in 1..Len(m) : m[i].name = k]
    ELSE NoDef

\* Faulty variant: set() that never looks for the key.
MapSetAppend(m, d) == Append(m, d)

MapSet(m, d) ==
    IF MapHas(m, d.name)
    THEN [i \in 1..Len(m) |-> IF m[i].name = d.name THEN d ELSE m[i]]
    ELSE Append(m, d)

MapDeleteTest(k, e) == e.name # k

\* Faulty variant: delete by splice(indexOf(k), 1), which drops the last entry
\* when the key is missing.
MapDeleteSplice(m, k) ==
    IF MapHas(m, k)
    THEN SelectSeq(m, LAMBDA e : MapDeleteTest(k, e))
    ELSE SubSeq(m, 1, Len(m) - 1)

MapDelete(m, k) == SelectSeq(m, LAMBDA e : MapDeleteTest(k, e))

MapKeys(m) == [i \in 1..Len(m) |-> m[i].name]

MapSize(m) == Len(m)

KeySet(m) == { m[i].name : i \in 1..Len(m) }

-----------------------------------------------------------------------------
(* The capability surface, as the stub the tests install *)

SurfEmpty == [n \in Names |-> NoWrapper]

SurfRegisterTool(s, w) == [s EXCEPT ![w.tool.name] = w]

SurfUnregisterTool(s, n) == [s EXCEPT ![n] = NoWrapper]

SurfNames(s) == { n \in Names : s[n] # NoWrapper }

\* What a registerTool call does: "ok" records the tool and returns, "reject"
\* throws without recording it, "late" records it and then throws.
Outcomes == {"ok", "reject", "late"}

SurfaceCall(fn, n) == [fn |-> fn, name |-> n]

-----------------------------------------------------------------------------
(* Plugins: getManifest() and getWebMCPHandlers() *)

Decl(n, d) == [name |-> n, description |-> d]

NotCallable == "not a function"

NoHandlers == [n \in Names |-> Undefined]

\* hasTools: the manifest carries webmcpTools; hasHandlers: the plugin has a
\* getWebMCPHandlers method.
Plugins ==
    [p1 |-> [hasTools |-> TRUE,
             webmcpTools |-> <<Decl("a", "p1 a"), Decl("b", "p1 b")>>,
             hasHandlers |-> TRUE,
             handlers |-> [NoHandlers EXCEPT !["a"] = "p1a", !["b"] = "p1b"]],
     p2 |-> [hasTools |-> TRUE,
             webmcpTools |-> <<Decl("a", "p2 a"), Decl("b", "p2 b")>>,
             hasHandlers |-> TRUE,
             handlers |-> [NoHandlers EXCEPT !["b"] = "p2b"]],
     p3 |-> [hasTools |-> FALSE,
             webmcpTools |-> <<>>,
             hasHandlers |-> FALSE,
             handlers |-> NoHandlers],
     p4 |-> [hasTools |-> TRUE,
             webmcpTools |-> <<>>,
             hasHandlers |-> TRUE,
             handlers |-> [NoHandlers EXCEPT !["a"] = "p4a"]],
     p5 |-> [hasTools |-> TRUE,
             webmcpTools |-> <<Decl("a", "p5 a")>>,
             hasHandlers |-> FALSE,
             handlers |-> NoHandlers],
     p6 |-> [hasTools |-> TRUE,
             webmcpTools |-> <<Decl("b", "p6 b")>>,
             hasHandlers |-> TRUE,
             handlers |-> [NoHandlers EXCEPT !["b"] = NotCallable]]]

PluginIds == DOMAIN Plugins

\* typeof execute === "function"
IsCallable(h) == h \notin {Undefined, NotCallable}

\* manifest.webmcpTools ?? []
Declarations(p) ==
    IF Plugins[p].hasTools THEN Plugins[p].webmcpTools ELSE <<>>

\* plugin.getWebMCPHandlers?.() ?? {}
HandlersOf(p) ==
    IF Plugins[p].hasHandlers THEN Plugins[p].handlers ELSE NoHandlers

DeclaredNames(p) == { Declarations(p)[i].name : i \in 1..Len(Declarations(p)) }

-----------------------------------------------------------------------------
(* Registry methods, as functions of a run record                           *)
(* [tools, surf, calls, raised]: the registry map, the surface map, the     *)
(* surface calls made so far and whether an exception is propagating.       *)

Run(t, s) == [tools |-> t, surf |-> s, calls |-> <<>>, raised |-> FALSE]

\* The closure register() builds for the surface.
Wrapper(tool, ctx) == [tool |-> tool, ctxAtCreation |-> ctx]

\* register(tool): mc.registerTool(wrapper) when mc, then tools.set.
RegisterRun(R, tool, mc, outcome, ctx) ==
    LET threw == mc /\ outcome # "ok" IN
    [tools  |-> IF threw THEN R.tools ELSE MapSet(R.tools, tool),
     surf   |-> IF mc /\ outcome \in {"ok", "late"}
                THEN SurfRegisterTool(R.surf, Wrapper(tool, ctx))
                ELSE R.surf,
     calls  |-> IF mc
                THEN Append(R.calls, SurfaceCall("registerTool", tool.name))
                ELSE R.calls,
     raised |-> threw]

\* Faulty variant: unregister that forgets the surface.
UnregisterRunLocalOnly(R, name, mc) ==
    [R EXCEPT !.tools = MapDelete(R.tools, name)]

\* unregister(name): mc.unregisterTool(name) when mc, then tools.delete.
UnregisterRun(R, name, mc) ==
    [tools  |-> MapDelete(R.tools, name),
     surf   |-> IF mc THEN SurfUnregisterTool(R.surf, name) ELSE R.surf,
     calls  |-> IF mc
                THEN Append(R.calls, SurfaceCall("unregisterTool", name))
                ELSE R.calls,
     raised |-> R.raised]

\* clear(): the for loop over tools.keys(), from key i on.
RECURSIVE ClearLoop(_, _, _, _)
ClearLoop(R, keys, i, mc) ==
    IF i > Len(keys) THEN R
    ELSE ClearLoop(
            [R EXCEPT
                !.surf  = IF mc THEN SurfUnregisterTool(@, keys[i]) ELSE @,
                !.calls = IF mc
                          THEN Append(@, SurfaceCall("unregisterTool", keys[i]))
                          ELSE @],
            keys, i + 1, mc)

\* Faulty variant: a loop that starts at the second key.
ClearRunSkipsFirst(R, mc) ==
    [ClearLoop(R, MapKeys(R.tools), 2, mc) EXCEPT !.tools = <<>>]

\* clear(): the loop, then tools.clear().
ClearRun(R, mc) ==
    [ClearLoop(R, MapKeys(R.tools), 1, mc) EXCEPT !.tools = <<>>]

\* registerPlugin: the for loop over the declarations, from declaration i on;
\* outs[i] is what the surface does with the i-th declaration's registerTool.
RECURSIVE RegisterPluginLoop(_, _, _, _, _, _, _)
RegisterPluginLoop(R, decls, handlers, i, mc, outs, ctx) ==
    IF i > Len(decls) THEN R
    ELSE LET execute == handlers[decls[i].name] IN
         IF ~IsCallable(execute)
         THEN RegisterPluginLoop(R, decls, handlers, i + 1, mc, outs, ctx)
         ELSE LET R1 == RegisterRun(R,
                            [name        |-> decls[i].name,
                             description |-> decls[i].description,
                             handler     |-> execute],
                            mc, outs[i], ctx)
              IN IF R1.raised
                 THEN R1
                 ELSE RegisterPluginLoop(R1, decls, handlers, i + 1, mc, outs, ctx)

\* registerPlugin(plugin)
RegisterPluginRun(R, p, mc, outs, ctx) ==
    IF ~Plugins[p].hasTools \/ Len(Plugins[p].webmcpTools) = 0
    THEN R
    ELSE RegisterPluginLoop(R, Plugins[p].webmcpTools, HandlersOf(p), 1,
                            mc, outs, ctx)

\* Faulty variant: only the first declaration is unregistered.
UnregisterPluginLoopFirstOnly(R, decls, i, mc) ==
    IF i > Len(decls) \/ i > 1 THEN R
    ELSE UnregisterRun(R, decls[i].name, mc)

\* unregisterPlugin(plugin): unregister(decl.name) for each declaration.
RECURSIVE UnregisterPluginLoop(_, _, _, _)
UnregisterPluginLoop(R, decls, i, mc) ==
    IF i > Len(decls) THEN R
    ELSE UnregisterPluginLoop(UnregisterRun(R, decls[i].name, mc),
                              decls, i + 1, mc)

\* Faulty variant: unloading a plugin drops every tool.
UnregisterPluginRunAll(R, p, mc) == ClearRun(R, mc)

\* Faulty variant: unloading a plugin drops only the entries that still carry the
\* plugin's own handler.
RECURSIVE UnregisterOwnedLoop(_, _, _, _)
UnregisterOwnedLoop(R, p, i, mc) ==
    IF i > Len(Declarations(p)) THEN R
    ELSE LET n == Declarations(p)[i].name IN
         UnregisterOwnedLoop(
            IF MapGet(R.tools, n).handler = HandlersOf(p)[n]
            THEN UnregisterRun(R, n, mc)
            ELSE R,
            p, i + 1, mc)

UnregisterPluginRunOwned(R, p, mc) == UnregisterOwnedLoop(R, p, 1, mc)

UnregisterPluginRun(R, p, mc) ==
    UnregisterPluginLoop(R, Declarations(p), 1, mc)

\* mc.unregisterTool(name) is a TypeError when mc has no such method.
CanUnregister(nv) == nv.unregisterTool = "function"

\* The exception leaves the method at the call: nothing after it runs.
Throw(R) == [R EXCEPT !.raised = TRUE]

\* unregister(name) in environment nv.
UnregisterCall(R, name, nv) ==
    IF GetModelContext(nv) /\ ~CanUnregister(nv)
    THEN Throw(R)
    ELSE UnregisterRun(R, name, GetModelContext(nv))

\* clear() in environment nv: the first pass of the loop throws.
ClearCall(R, nv) ==
    IF GetModelContext(nv) /\ ~CanUnregister(nv) /\ MapSize(R.tools) > 0
    THEN Throw(R)
    ELSE ClearRun(R, GetModelContext(nv))

\* unregisterPlugin(plugin) in environment nv: the first unregister throws.
UnregisterPluginCall(R, p, nv) ==
    IF GetModelContext(nv) /\ ~CanUnregister(nv) /\ Len(Declarations(p)) > 0
    THEN Throw(R)
    ELSE UnregisterPluginRun(R, p, GetModelContext(nv))

-----------------------------------------------------------------------------
(* State *)

NoGot == [held |-> FALSE, val |-> EmptyContext]

\* plugin.ts: how many init() calls get past the guard, and how many
\* shutdown() calls can be pending at once.
MaxInits == 3
MaxShutdowns == 2

Gens == 1..MaxInits
Shutdowns == 1..MaxShutdowns

\* The three cleanups init pushes, in the order it pushes them.
Kinds == <<"configSchema", "server", "extension">>
KindSet == {Kinds[k] : k \in 1..Len(Kinds)}

\* The cleanup of one kind pushed by the g-th init that passed the guard.
Cleanup(g, kind) == [gen |-> g, kind |-> kind]

\* A shutdown() call that has not been made: pc is where the call stands, i the
\* loop index it is awaiting, plan the cleanup list as the call found it, trace
\* the cleanups it has called, err whether the awaited cleanup rejects, failed
\* how many of its cleanups have rejected, caught and logged how many errors
\* its catch block has taken and logged.
NoProc ==
    [pc |-> "idle", i |-> 0, plan |-> <<>>, trace |-> <<>>, err |-> FALSE,
     failed |-> 0, caught |-> 0, logged |-> 0]

\* let ctx = null; const cleanups = []; nothing started, nothing registered.
InitWebui ==
    /\ pluginCtx = "null"
    /\ cleanups = <<>>
    /\ servers = [g \in Gens |-> "none"]
    /\ host = [configSchema |-> FALSE, extension |-> FALSE]
    /\ ran = [g \in Gens |-> [k \in KindSet |-> 0]]
    /\ procs = [p \in Shutdowns |-> NoProc]

NoLast ==
    [op |-> "new", name |-> Undefined, def |-> NoDef, plugin |-> Undefined,
     mc |-> FALSE, raised |-> FALSE, handler |-> Undefined,
     ctx |-> EmptyContext]

\* new WebMCPRegistry(): an empty map and the context {}.
InitRegistry ==
    /\ tools = <<>>
    /\ authContext = EmptyContext
    /\ heap = [r \in Refs |-> <<"viewer">>]
    /\ got = NoGot
    /\ surf = SurfEmpty
    /\ calls = <<>>
    /\ last = NoLast
    /\ prev = [tools |-> <<>>, surf |-> SurfEmpty]
    /\ regFailed = FALSE
    /\ absentOp = FALSE
    /\ bound = FALSE
    /\ loadedBy = [p \in PluginIds |-> {}]
    /\ inFlight = [k \in 1..MaxInFlight |-> NoInvocation]
    /\ settled = NoInvocation
    /\ now = 0
    /\ toolsCtx = EmptyContext
    /\ InitWebui

Init ==
    /\ InitRegistry
    /\ nav \in {NoNavigator, WithSurface}

\* The outcome of a registry method: the run record R becomes the state.
Finish(R, op, n, d, p) ==
    /\ tools' = R.tools
    /\ surf' = R.surf
    /\ calls' = R.calls
    /\ prev' = [tools |-> tools, surf |-> surf]
    /\ last' = [NoLast EXCEPT !.op = op, !.name = n, !.def = d, !.plugin = p,
                              !.mc = present, !.raised = R.raised]
    /\ regFailed' = (regFailed \/ (R.raised /\ op \in {"register", "registerPlugin"}))
    /\ absentOp' = (absentOp \/ ~present)
    /\ UNCHANGED <<authContext, heap, got, nav>>

-----------------------------------------------------------------------------
(* Registry operations *)

Register(tool, outcome) ==
    /\ Finish(RegisterRun(Run(tools, surf), tool, present, outcome, authContext),
              "register", tool.name, tool, Undefined)
    /\ UNCHANGED <<lifeVars, convVars, webuiVars>>

Unregister(name) ==
    /\ Finish(UnregisterCall(Run(tools, surf), name, nav),
              "unregister", name, NoDef, Undefined)
    /\ UNCHANGED <<lifeVars, convVars, webuiVars>>

Clear ==
    /\ Finish(ClearCall(Run(tools, surf), nav),
              "clear", Undefined, NoDef, Undefined)
    /\ UNCHANGED <<lifeVars, convVars, webuiVars>>

RegisterPlugin(p, outs) ==
    /\ Finish(RegisterPluginRun(Run(tools, surf), p, present, outs, authContext),
              "registerPlugin", Undefined, NoDef, p)
    /\ UNCHANGED <<lifeVars, convVars, webuiVars>>

UnregisterPlugin(p) ==
    /\ Finish(UnregisterPluginCall(Run(tools, surf), p, nav),
              "unregisterPlugin", Undefined, NoDef, p)
    /\ UNCHANGED <<lifeVars, convVars, webuiVars>>

\* The hosting environment gains or loses navigator.modelContext.
InstallSurface ==
    /\ ~present
    /\ nav' = WithSurface
    /\ UNCHANGED <<tools, authContext, heap, got, surf, calls, last, prev,
                   regFailed, absentOp, lifeVars, convVars, webuiVars>>

RemoveSurface ==
    /\ present
    /\ nav' = NoNavigator
    /\ UNCHANGED <<tools, authContext, heap, got, surf, calls, last, prev,
                   regFailed, absentOp, lifeVars, convVars, webuiVars>>

\* What the surface may do with each registerTool call of registerPlugin(p):
\* one outcome per declaration that reaches register().
PluginOutcomes(p) ==
    { outs \in [1..Len(Declarations(p)) -> Outcomes] :
        \A i \in 1..Len(Declarations(p)) :
            (~present \/ ~IsCallable(HandlersOf(p)[Declarations(p)[i].name]))
                => outs[i] = "ok" }

\* What the surface may do with the registerTool call of register().
RegisterOutcomes == IF present THEN Outcomes ELSE {"ok"}

Next ==
    \/ \E d \in DirectDefs, o \in RegisterOutcomes : Register(d, o)
    \/ \E n \in Names : Unregister(n)
    \/ Clear
    \/ \E p \in PluginIds : \E outs \in PluginOutcomes(p) : RegisterPlugin(p, outs)
    \/ \E p \in PluginIds : UnregisterPlugin(p)
    \/ InstallSurface
    \/ RemoveSurface

Spec == Init /\ [][Next]_vars

-----------------------------------------------------------------------------
(* Auth context and wrapper invocation *)

\* Faulty variant: the fields are written onto the registry's current context.
SpreadOntoCurrent(o) ==
    [f \in DOMAIN o \cup DOMAIN authContext |->
        IF f \in DOMAIN o THEN o[f] ELSE authContext[f]]

\* { ...o }: a new object with o's own fields; a field holding an array holds
\* the same array in the copy.
Spread(o) == [f \in DOMAIN o |-> o[f]]

\* The rest of the state a context step leaves alone.
RegistryUnchanged ==
    UNCHANGED <<tools, nav, surf, calls, prev, regFailed, absentOp, lifeVars>>

\* Faulty variant: the invocations in flight see the registry's new context.
InFlightAfterSetShared(invs, ctx) ==
    [k \in DOMAIN invs |->
        IF invs[k].state = "pending" THEN [invs[k] EXCEPT !.auth = ctx]
        ELSE invs[k]]

\* What setAuthContext does to the invocations in flight: each holds the
\* copy its getAuthContext() call returned, and the registry's field is
\* assigned a new object, so none of them changes.
InFlightAfterSet(invs, ctx) == invs

\* setAuthContext(auth)
SetAuthContext(auth) ==
    /\ authContext' = Spread(auth)
    /\ last' = [NoLast EXCEPT !.op = "setAuthContext", !.ctx = auth]
    /\ UNCHANGED <<heap, got>>
    /\ RegistryUnchanged
    /\ inFlight' = InFlightAfterSet(inFlight, authContext')
    /\ UNCHANGED <<settled, now, toolsCtx, webuiVars>>

\* const ctx = registry.getAuthContext()
GetAuthContext ==
    /\ got' = [held |-> TRUE, val |-> Spread(authContext)]
    /\ last' = [NoLast EXCEPT !.op = "getAuthContext", !.ctx = authContext]
    /\ UNCHANGED <<authContext, heap>>
    /\ RegistryUnchanged
    /\ UNCHANGED <<convVars, webuiVars>>

\* The caller assigns a top-level field of the object it was returned:
\* ctx.userId = u
MutateReturnedField(u) ==
    /\ got.held
    /\ got.val.userId # u
    /\ got' = [got EXCEPT !.val.userId = u]
    /\ last' = [NoLast EXCEPT !.op = "mutateReturnedField"]
    /\ UNCHANGED <<authContext, heap>>
    /\ RegistryUnchanged
    /\ UNCHANGED <<convVars, webuiVars>>

\* The caller changes a value reachable from the object it was returned:
\* ctx.roles.push(role)
MutateReturnedRoles(role) ==
    /\ got.held
    /\ got.val.roles # Undefined
    /\ Len(heap[got.val.roles]) < MaxRoles
    /\ heap' = [heap EXCEPT ![got.val.roles] = Append(@, role)]
    /\ last' = [NoLast EXCEPT !.op = "mutateReturnedRoles"]
    /\ UNCHANGED <<authContext, got>>
    /\ RegistryUnchanged
    /\ UNCHANGED <<convVars, webuiVars>>

\* Faulty variant: the wrapper passes the context it saw when it was created.
InvokeContextAtCreation(live, atCreation) == atCreation

\* The second argument of tool.handler in the wrapper: the registry's context
\* read when the wrapper runs.
InvokeContext(live, atCreation) == live

\* The surface calls the wrapper it holds for name n (legacy revision:
\* params => tool.handler(params, this.authContext)).
InvokeWrapper(n) ==
    /\ surf[n] # NoWrapper
    /\ last' = [NoLast EXCEPT
                    !.op = "invoke", !.name = n,
                    !.def = surf[n].tool,
                    !.handler = surf[n].tool.handler,
                    !.ctx = InvokeContext(authContext, surf[n].ctxAtCreation)]
    /\ UNCHANGED <<authContext, heap, got>>
    /\ RegistryUnchanged
    /\ UNCHANGED <<convVars, webuiVars>>

\* The surface calls the wrapper it holds for name n (W3C revision:
\* (input, client) => tool.execute(input, client)); the tool body starts with
\* const auth = registry.getAuthContext(), as the conversation tools do.
ExecuteWrapper(n) ==
    /\ surf[n] # NoWrapper
    /\ last' = [NoLast EXCEPT
                    !.op = "execute", !.name = n,
                    !.def = surf[n].tool,
                    !.handler = surf[n].tool.handler,
                    !.ctx = Spread(authContext)]
    /\ UNCHANGED <<authContext, heap, got>>
    /\ RegistryUnchanged
    /\ UNCHANGED <<convVars, webuiVars>>

\* The surface calls the wrapper it holds for name n (legacy revision) and the
\* tool's handler assigns a field of the context argument it was given,
\* auth.userId = u: the argument is the registry's own this.authContext.
InvokeMutatingHandler(n, u) ==
    /\ surf[n] # NoWrapper
    /\ authContext' =
           [f \in DOMAIN authContext \cup {"userId"} |->
               IF f = "userId" THEN u ELSE authContext[f]]
    /\ last' = [NoLast EXCEPT
                    !.op = "invoke", !.name = n,
                    !.def = surf[n].tool,
                    !.handler = surf[n].tool.handler,
                    !.ctx = InvokeContext(authContext, surf[n].ctxAtCreation)]
    /\ UNCHANGED <<heap, got>>
    /\ RegistryUnchanged
    /\ UNCHANGED <<convVars, webuiVars>>

\* The registry with a surface present, its context being set and read while
\* tools are registered and invoked.
InitCtx ==
    /\ InitRegistry
    /\ nav = WithSurface

CtxDefs == { d \in DirectDefs : d.name = "a" }

NextCtx ==
    \/ \E auth \in Contexts : SetAuthContext(auth)
    \/ GetAuthContext
    \/ MutateReturnedField(Mutated)
    \/ \E role \in RoleNames : MutateReturnedRoles(role)
    \/ \E d \in CtxDefs, o \in RegisterOutcomes : Register(d, o)
    \/ \E n \in Names : InvokeWrapper(n)
    \/ \E n \in Names : ExecuteWrapper(n)

SpecCtx == InitCtx /\ [][NextCtx]_vars

-----------------------------------------------------------------------------
(* Plugin lifecycle events *)

\* bindPluginLifecycle(registry, eventBus): the two listeners are subscribed.
BindPluginLifecycle ==
    /\ ~bound
    /\ bound' = TRUE
    /\ last' = [NoLast EXCEPT !.op = "bindPluginLifecycle"]
    /\ UNCHANGED <<tools, authContext, heap, got, nav, surf, calls, prev,
                   regFailed, absentOp, loadedBy, convVars, webuiVars>>

\* The names a registerPlugin call sets: those it leaves in a map that was
\* empty before it.
RegisteredBy(p, mc, outs, ctx) ==
    KeySet(RegisterPluginRun(Run(<<>>, SurfEmpty), p, mc, outs, ctx).tools)

\* The bus emits "plugin:loaded" with plugin p: registry.registerPlugin(p).
PluginLoaded(p, outs) ==
    /\ bound
    /\ Finish(RegisterPluginRun(Run(tools, surf), p, present, outs, authContext),
              "plugin:loaded", Undefined, NoDef, p)
    /\ loadedBy' = [loadedBy EXCEPT ![p] = RegisteredBy(p, present, outs, authContext)]
    /\ UNCHANGED <<bound, convVars, webuiVars>>

\* The bus emits "plugin:unloaded" with plugin p: registry.unregisterPlugin(p).
PluginUnloaded(p) ==
    /\ bound
    /\ Finish(UnregisterPluginCall(Run(tools, surf), p, nav),
              "plugin:unloaded", Undefined, NoDef, p)
    /\ UNCHANGED <<lifeVars, convVars, webuiVars>>

NextLife ==
    \/ BindPluginLifecycle
    \/ \E p \in PluginIds : \E outs \in PluginOutcomes(p) : PluginLoaded(p, outs)
    \/ \E p \in PluginIds : PluginUnloaded(p)
    \/ InstallSurface
    \/ RemoveSurface

SpecLife == Init /\ [][NextLife]_vars

-----------------------------------------------------------------------------
(* The probe in every environment *)

\* The test replaces globalThis.navigator by another object.
SetNavigator(nv) ==
    /\ nv # nav
    /\ nav' = nv
    /\ last' = [NoLast EXCEPT !.op = "setNavigator"]
    /\ UNCHANGED <<tools, authContext, heap, got, surf, calls, prev,
                   regFailed, absentOp, lifeVars, convVars, webuiVars>>

\* isSupported(): the result is kept in last.mc.
IsSupported ==
    /\ last' = [NoLast EXCEPT !.op = "isSupported",
                              !.mc = GetModelContext(nav)]
    /\ calls' = <<>>
    /\ prev' = [tools |-> tools, surf |-> surf]
    /\ UNCHANGED <<tools, authContext, heap, got, nav, surf, regFailed,
                   absentOp, lifeVars, convVars, webuiVars>>

InitProbe ==
    /\ InitRegistry
    /\ nav \in Navigators

NextProbe ==
    \/ \E nv \in Navigators : SetNavigator(nv)
    \/ IsSupported
    \/ \E d \in DirectDefs, o \in RegisterOutcomes : Register(d, o)
    \/ \E n \in Names : Unregister(n)
    \/ Clear

SpecProbe == InitProbe /\ [][NextProbe]_vars

-----------------------------------------------------------------------------
(* Conversation tools *)

\* Faulty variant: no character is escaped.
EscapeOfNothing(c) == <<c>>

\* encodeURIComponent, character by character: the characters that are not
\* unreserved become their percent escapes.
EscapeOf(c) ==
    CASE c = "/" -> <<"%", "2", "F">>
      [] c = "?" -> <<"%", "3", "F">>
      [] c = "%" -> <<"%", "2", "5">>
      [] OTHER   -> <<c>>

RECURSIVE EncodeURIComponent(_)
EncodeURIComponent(chars) ==
    IF chars = <<>> THEN <<>>
    ELSE EscapeOf(Head(chars)) \o EncodeURIComponent(Tail(chars))

\* if (auth.token)
TokenTruthy(token) == token # Undefined /\ token # ""

\* The headers daemonRequest builds and the call it passes to fetch.
DaemonRequest(url, auth, method, body) ==
    [url |-> url, method |-> method, body |-> body,
     contentType |-> "application/json",
     authorization |-> IF TokenTruthy(Field(auth, "token"))
                       THEN Bearer(Field(auth, "token"))
                       ELSE NoAuthorization]

\* An invocation waiting for the response to the request it made.
Pending(tool, input, auth, request) ==
    [NoInvocation EXCEPT !.tool = tool, !.input = input, !.auth = auth,
                         !.requests = <<request>>, !.state = "pending"]

\* Faulty variant: the parameter check comes after the request.
InvalidAfterRequest(tool, input, auth, text) ==
    [NoInvocation EXCEPT
        !.tool = tool, !.input = input, !.auth = auth,
        !.requests = <<DaemonRequest(Url("sessions", JsUndefined, "", JsUndefined),
                                     auth, Undefined, NoBody)>>,
        !.state = "rejected", !.message = Message(text)]

\* throw new Error(text), before any request.
Invalid(tool, input, auth, text) ==
    [NoInvocation EXCEPT !.tool = tool, !.input = input, !.auth = auth,
                         !.state = "rejected", !.message = Message(text)]

\* Faulty variant: a tool body that uses the context of registration time.
ExecuteAuthAtRegistration(live, atRegistration) == Spread(atRegistration)

\* const auth = registry.getAuthContext(), the first statement of each body.
ExecuteAuth(live, atRegistration) == Spread(live)

\* x || "default"
OrDefault(x) == IF Falsy(x) THEN Default ELSE x.v

\* The synchronous part of a tool's execute(input): up to the fetch call, or
\* to the throw that precedes it.  t is Date.now().
Execute(tool, input, auth, t) ==
    CASE tool = "sendMessage" ->
            IF Falsy(input.text)
            THEN Invalid(tool, input, auth, "Parameter 'text' is required")
            ELSE Pending(tool, input, auth,
                    DaemonRequest(
                        Url("sessions",
                            JsString(EncodeURIComponent(OrDefault(input.sessionId))),
                            "inject", JsUndefined),
                        auth, "POST", InjectBody(input.text.v)))
      [] tool = "getConversation" ->
            IF Falsy(input.sessionId)
            THEN Invalid(tool, input, auth, "Parameter 'sessionId' is required")
            ELSE Pending(tool, input, auth,
                    DaemonRequest(
                        Url("sessions",
                            JsString(EncodeURIComponent(input.sessionId.v)),
                            "history",
                            IF input.limit # JsUndefined
                            THEN JsString(EncodeURIComponent(input.limit.v))
                            ELSE JsUndefined),
                        auth, Undefined, NoBody))
      [] tool = "listSessions" ->
            Pending(tool, input, auth,
                DaemonRequest(Url("sessions", JsUndefined, "", JsUndefined),
                              auth, Undefined, NoBody))
      [] tool = "newSession" ->
            Pending(tool, input, auth,
                DaemonRequest(Url("sessions", JsUndefined, "", JsUndefined),
                              auth, "POST",
                              SessionBody(SessionName(t),
                                  IF Falsy(input.model) THEN JsUndefined
                                  ELSE JsString(<<"Use model: ">> \o input.model.v))))
      [] tool = "getStatus" ->
            Pending(tool, input, auth,
                DaemonRequest(Url("status", JsUndefined, "", JsUndefined),
                              auth, Undefined, NoBody))

\* The Error daemonRequest throws for a response that is not ok:
\* err = await res.json().catch(() => ({ error: "Request failed" })), then
\* err.error || `Request failed (${res.status})`.  Reading .error of null is
\* a TypeError.
ErrorMessage(response) ==
    LET err == IF response.body.json = "unparseable"
               THEN JsonObject(TRUE, "Request failed")
               ELSE response.body
    IN  IF err.json = "null"
        THEN Message("TypeError: Cannot read properties of null (reading 'error')")
        ELSE IF err.hasError /\ err.error # ""
             THEN Message(err.error)
             ELSE GenericMessage(response.status)

Rejected(inv, response, message) ==
    [inv EXCEPT !.state = "rejected", !.response = response, !.message = message]

\* Faulty variant: an invocation that fetches again after a failure.
SettleWithRetry(inv, response) ==
    IF response.kind = "reject" \/ ~Ok(response.status)
    THEN [inv EXCEPT !.requests = Append(@, inv.requests[1]),
                     !.state = "rejected", !.response = response,
                     !.message = ErrorMessage(response)]
    ELSE [inv EXCEPT !.state = "resolved", !.response = response,
                     !.value = response.body]

\* daemonRequest from the await of fetch on: how the invocation settles once
\* fetch has settled with the given response.
Settle(inv, response) ==
    IF response.kind = "reject"
    THEN Rejected(inv, response, Message("fetch failed"))
    ELSE IF ~Ok(response.status)
    THEN Rejected(inv, response, ErrorMessage(response))
    ELSE IF response.body.json = "unparseable"
    THEN Rejected(inv, response, Message("SyntaxError"))
    ELSE [inv EXCEPT !.state = "resolved", !.response = response,
                     !.value = response.body]

\* registerConversationTools(registry): the five register calls in order,
\* from tool i on; an exception leaves the function.
RECURSIVE RegisterConversationToolsLoop(_, _, _, _)
RegisterConversationToolsLoop(R, i, mc, ctx) ==
    IF i > Len(ConversationOrder) \/ R.raised THEN R
    ELSE RegisterConversationToolsLoop(
             RegisterRun(R, ConversationDef(ConversationOrder[i]), mc, "ok", ctx),
             i + 1, mc, ctx)

RegisterConversationTools ==
    /\ Finish(RegisterConversationToolsLoop(Run(tools, surf), 1, present, authContext),
              "registerConversationTools", Undefined, NoDef, Undefined)
    /\ toolsCtx' = authContext
    /\ UNCHANGED <<lifeVars, inFlight, settled, now, webuiVars>>

\* The slots of inFlight that hold no invocation.
FreeSlots == { k \in DOMAIN inFlight : inFlight[k] = NoInvocation }

\* The caller gets the tool from the registry and calls its execute(input).
\* The body runs to its first await: the request is with fetch and the
\* invocation in flight, or the body has thrown and the invocation has failed.
Begin(tool, input) ==
    /\ MapGet(tools, tool) = ConversationDef(tool)
    /\ LET inv == [Execute(tool, input, ExecuteAuth(authContext, toolsCtx), now)
                      EXCEPT !.startCtx = authContext] IN
        IF inv.state = "pending"
        THEN /\ FreeSlots # {}
             /\ inFlight' = [inFlight EXCEPT
                                 ![CHOOSE k \in FreeSlots :
                                        \A j \in FreeSlots : k <= j] = inv]
             /\ UNCHANGED settled
        ELSE /\ settled' = inv
             /\ UNCHANGED inFlight
    /\ last' = [NoLast EXCEPT !.op = "begin", !.name = tool]
    /\ UNCHANGED <<tools, authContext, heap, got, nav, surf, calls, prev,
                   regFailed, absentOp, lifeVars, now, toolsCtx, webuiVars>>

\* fetch settles for the invocation in slot k, and the invocation with it.
Respond(k, response) ==
    /\ inFlight[k] # NoInvocation
    /\ settled' = Settle(inFlight[k], response)
    /\ inFlight' = [inFlight EXCEPT ![k] = NoInvocation]
    /\ last' = [NoLast EXCEPT !.op = "respond", !.name = inFlight[k].tool]
    /\ UNCHANGED <<tools, authContext, heap, got, nav, surf, calls, prev,
                   regFailed, absentOp, lifeVars, now, toolsCtx, webuiVars>>

\* The inputs callers pass to each tool.
InputsOf(tool) ==
    CASE tool = "sendMessage" ->
            { [NoInput EXCEPT !.text = x, !.sessionId = y] :
                x \in {JsUndefined, JsString(<<>>), JsString(Hi)},
                y \in {JsUndefined, JsString(<<>>), JsString(Slashed)} }
      [] tool = "getConversation" ->
            { [NoInput EXCEPT !.sessionId = y, !.limit = z] :
                y \in {JsUndefined, JsString(<<>>), JsString(Slashed)},
                z \in {JsUndefined, JsString(Ten)} }
      [] OTHER -> {NoInput}

\* A response of each kind: fetch rejects, success, failure.
SomeResponses ==
    { FetchRejects,
      [kind |-> "response", status |-> 200, body |-> JsonObject(FALSE, "")],
      [kind |-> "response", status |-> 500,
       body |-> JsonObject(TRUE, "Session not found")] }

\* The registry as the conversation tools' tests set it up: no surface.
InitConv ==
    /\ InitRegistry
    /\ nav = NoNavigator

NextConv ==
    \/ RegisterConversationTools
    \/ \E tool \in ConversationTools : \E input \in InputsOf(tool) : Begin(tool, input)
    \/ \E k \in DOMAIN inFlight, response \in SomeResponses : Respond(k, response)

SpecConv == InitConv /\ [][NextConv]_vars

\* The tools without input, answered in every way.
NextErr ==
    \/ RegisterConversationTools
    \/ \E tool \in {"listSessions", "getStatus"} : Begin(tool, NoInput)
    \/ \E k \in DOMAIN inFlight, response \in Responses : Respond(k, response)

SpecErr == InitConv /\ [][NextErr]_vars

\* Two of the tools, invoked while the registry's context is set and set
\* again, before and after the tools are registered.
HiInput == [NoInput EXCEPT !.text = JsString(Hi)]

NextAuth ==
    \/ \E auth \in TokenContexts : SetAuthContext(auth)
    \/ RegisterConversationTools
    \/ Begin("sendMessage", HiInput)
    \/ Begin("getStatus", NoInput)
    \/ \E k \in DOMAIN inFlight :
            Respond(k, [kind |-> "response", status |-> 200,
                        body |-> JsonObject(FALSE, "")])

SpecAuth == InitConv /\ [][NextAuth]_vars

\* A millisecond passes.
Tick ==
    /\ now < MaxNow
    /\ now' = now + 1
    /\ last' = [NoLast EXCEPT !.op = "tick"]
    /\ UNCHANGED <<tools, authContext, heap, got, nav, surf, calls, prev,
                   regFailed, absentOp, lifeVars, inFlight, settled, toolsCtx,
                   webuiVars>>

ModelInput == [NoInput EXCEPT !.model = JsString(Opus)]

\* newSession invoked while the clock runs.
NextClock ==
    \/ RegisterConversationTools
    \/ \E input \in {NoInput, ModelInput} : Begin("newSession", input)
    \/ \E k \in DOMAIN inFlight :
            Respond(k, [kind |-> "response", status |-> 200,
                        body |-> JsonObject(FALSE, "")])
    \/ Tick

SpecClock == InitConv /\ [][NextClock]_vars

\* Contexts that differ in the fields they carry.
MixedContexts ==
    TokenContexts \cup
    { [userId |-> "before"], [userId |-> "after", token |-> "tok-123"] }

\* The context is set to records of different fields and read back.
NextReplace ==
    \/ \E auth \in MixedContexts : SetAuthContext(auth)
    \/ GetAuthContext
    \/ RegisterConversationTools

SpecReplace == InitConv /\ [][NextReplace]_vars

\* The surface invokes the wrappers it holds while tools are registered
\* again and unregistered, with the surface there or not.
NextWrap ==
    \/ \E d \in DirectDefs : Register(d, "ok")
    \/ \E n \in Names : Unregister(n)
    \/ InstallSurface
    \/ RemoveSurface
    \/ \E n \in Names : InvokeWrapper(n)
    \/ \E n \in Names : ExecuteWrapper(n)

SpecWrap == Init /\ [][NextWrap]_vars

\* Tools are invoked, also ones whose handler writes to its context
\* argument, while the context is set and read.
NextMut ==
    \/ \E auth \in Contexts : SetAuthContext(auth)
    \/ GetAuthContext
    \/ \E d \in CtxDefs : Register(d, "ok")
    \/ \E n \in Names : InvokeWrapper(n)
    \/ \E n \in Names : ExecuteWrapper(n)
    \/ \E n \in Names : InvokeMutatingHandler(n, Mutated)

SpecMut == InitCtx /\ [][NextMut]_vars

-----------------------------------------------------------------------------
(* The web UI plugin: init and shutdown *)

\* Everything of the registry stays as it is.
WebuiOnly ==
    UNCHANGED <<tools, authContext, heap, got, nav, surf, calls, prev,
                regFailed, absentOp, lifeVars, convVars>>

\* The plugin's state while one call runs, with the shutdown call running.
Webui(proc) ==
    [ctx |-> pluginCtx, cleanups |-> cleanups, servers |-> servers,
     host |-> host, ran |-> ran, proc |-> proc]

\* The number of the next init that passes the guard.
NextGen == 1 + Cardinality({g \in Gens : servers[g] # "none"})

\* The servers startServer has created and nobody has closed.
Open == {g \in Gens : servers[g] \in {"listening", "failed"}}

\* The servers startServer has created that are listening.
Listening == {g \in Gens : servers[g] = "listening"}

\* if (!existsSync(distDir)) { ...; ctx.unregisterConfigSchema(...);
\* cleanups.length = 0; ctx = null; return; }, with the cleanup kept.
InitBailKeepsCleanup(U) ==
    [U EXCEPT !.host.configSchema = FALSE, !.ctx = "null"]

\* if (!existsSync(distDir)) { ...; ctx.unregisterConfigSchema(...);
\* cleanups.length = 0; ctx = null; return; }
InitBail(U) ==
    [U EXCEPT !.host.configSchema = FALSE, !.cleanups = <<>>, !.ctx = "null"]

\* init past its guard: the schema and its cleanup, then either the return
\* for a missing dist/ or the server, the extension and their cleanups.
\* listens is FALSE when listen() fails (the port is taken).
InitRun(U, g, dist, listens) ==
    LET U1 == [U EXCEPT !.ctx = "host",
                        !.host.configSchema = TRUE,
                        !.cleanups = Append(@, Cleanup(g, "configSchema"))]
    IN IF ~dist
       THEN InitBail([U1 EXCEPT !.servers[g] = "nodist"])
       ELSE [U1 EXCEPT !.servers[g] = IF listens THEN "listening" ELSE "failed",
                       !.cleanups = @ \o <<Cleanup(g, "server"),
                                           Cleanup(g, "extension")>>,
                       !.host.extension = TRUE]

\* The plugin's variables take the values of U; the call was made by p.
Store(U, p) ==
    /\ pluginCtx' = U.ctx
    /\ cleanups' = U.cleanups
    /\ servers' = U.servers
    /\ host' = U.host
    /\ ran' = U.ran
    /\ procs' = IF p \in Shutdowns THEN [procs EXCEPT ![p] = U.proc] ELSE procs

\* async init(pluginContext): one step, it awaits nothing.
PluginInit(dist, listens) ==
    /\ IF pluginCtx # "null"
       THEN /\ last' = [NoLast EXCEPT !.op = "init", !.name = "skipped"]
            /\ UNCHANGED webuiVars
       ELSE /\ NextGen <= MaxInits
            /\ Store(InitRun(Webui(NoProc), NextGen, dist, listens), 0)
            /\ last' = [NoLast EXCEPT !.op = "init",
                            !.name = IF dist THEN "started" ELSE "nodist"]
    /\ WebuiOnly

\* catch (error) { ctx?.log.error(...) }, without the log.
CaughtSilently(U) == [U EXCEPT !.proc.caught = @ + 1]

\* catch (error) { ctx?.log.error(`Cleanup error: ...`) }
Caught(U) ==
    [U EXCEPT !.proc.caught = @ + 1,
              !.proc.logged = IF U.ctx # "null" THEN @ + 1 ELSE @]

\* cleanups[i](), up to the promise it returns: the two unregister cleanups
\* go through the live ctx?., the server cleanup calls server.close, whose
\* callback reports an error unless the server was listening.
CallCleanup(U, i) ==
    LET c == U.cleanups[i]
        U1 == [U EXCEPT !.ran[c.gen][c.kind] = @ + 1,
                        !.proc.trace = Append(@, c),
                        !.proc.i = i,
                        !.proc.pc = "await",
                        !.proc.err = FALSE]
    IN CASE c.kind = "configSchema" ->
              [U1 EXCEPT !.host.configSchema = IF U.ctx # "null" THEN FALSE ELSE @]
         [] c.kind = "extension" ->
              [U1 EXCEPT !.host.extension = IF U.ctx # "null" THEN FALSE ELSE @]
         [] c.kind = "server" ->
              [U1 EXCEPT !.servers[c.gen] = "closed",
                         !.proc.err = (U.servers[c.gen] # "listening"),
                         !.proc.failed =
                             IF U.servers[c.gen] # "listening" THEN @ + 1 ELSE @]

\* cleanups.length = 0; ctx = null; with the list kept.
ShutdownEndKeepsCleanups(U) ==
    [U EXCEPT !.ctx = "null", !.proc.pc = "done", !.proc.i = 0]

\* cleanups.length = 0; ctx = null;
ShutdownEnd(U) ==
    [U EXCEPT !.cleanups = <<>>, !.ctx = "null", !.proc.pc = "done", !.proc.i = 0]

\* for (let i = ...; i >= 0; i--) { try { await cleanups[i](); } catch ... }
\* from index i (counted from 1) down to the next await: an index past the
\* end of the list calls undefined, which the catch block takes.
RECURSIVE ShutdownLoop(_, _)
ShutdownLoop(U, i) ==
    IF i < 1 THEN ShutdownEnd(U)
    ELSE IF i > Len(U.cleanups) THEN ShutdownLoop(Caught(U), i - 1)
    ELSE CallCleanup(U, i)

\* async shutdown(): up to its first await, or to its end if the list is empty.
ShutdownCall(p) ==
    /\ procs[p].pc # "await"
    /\ Store(ShutdownLoop(Webui([NoProc EXCEPT !.plan = cleanups]),
                          Len(cleanups)), p)
    /\ last' = [NoLast EXCEPT !.op = "shutdown",
                    !.name = IF cleanups = <<>> THEN "nothing" ELSE "running"]
    /\ WebuiOnly

\* The awaited cleanup settles and the loop goes on to its next await or end.
ShutdownResume(p) ==
    /\ procs[p].pc = "await"
    /\ LET U == Webui(procs[p])
           U1 == IF U.proc.err THEN Caught(U) ELSE U
       IN Store(ShutdownLoop([U1 EXCEPT !.proc.err = FALSE], U.proc.i - 1), p)
    /\ last' = [NoLast EXCEPT !.op = "resume"]
    /\ WebuiOnly

\* No shutdown call is awaiting a cleanup.
Quiet == \A p \in Shutdowns : procs[p].pc # "await"

InitPlugin ==
    /\ InitRegistry
    /\ nav = NoNavigator

\* Calls made one after the other, each awaited before the next.
NextSequential ==
    \/ \E dist \in BOOLEAN, listens \in BOOLEAN :
         Quiet /\ PluginInit(dist, listens)
    \/ \E p \in Shutdowns : Quiet /\ ShutdownCall(p)
    \/ \E p \in Shutdowns : ShutdownResume(p)

SpecSequential == InitPlugin /\ [][NextSequential]_vars

\* Calls made without awaiting the earlier ones.
NextOverlap ==
    \/ \E dist \in BOOLEAN, listens \in BOOLEAN : PluginInit(dist, listens)
    \/ \E p \in Shutdowns : ShutdownCall(p)
    \/ \E p \in Shutdowns : ShutdownResume(p)

SpecOverlap == InitPlugin /\ [][NextOverlap]_vars

-----------------------------------------------------------------------------
(* Properties *)

C2_LocalRegistrationSurvivesSurfaceFailure ==
    (last.op = "register" /\ last.mc /\ last.raised)
        => MapGet(tools, last.name) = last.def

\* C3: the registry holds at most one definition per name: list() has no name
\* twice, size counts each name once, after a register(d) that returned
\* get(d.name) is d itself, and a register or unregister of one name leaves
\* what get returns for every other name as it was.
C3_NoDuplicateNames ==
    /\ \A i, j \in 1..Len(MapKeys(tools)) :
            MapKeys(tools)[i] = MapKeys(tools)[j] => i = j
    /\ MapSize(tools) = Cardinality(KeySet(tools))

C3_RegisterReplaces ==
    (last.op = "register" /\ ~last.raised)
        => /\ MapGet(tools, last.name) = last.def
           /\ Cardinality({ i \in 1..Len(tools) : tools[i].name = last.name }) = 1
           /\ MapSize(tools) =
                IF MapHas(prev.tools, last.name)
                THEN MapSize(prev.tools)
                ELSE MapSize(prev.tools) + 1

C3_OtherNamesKept ==
    last.op \in {"register", "unregister"}
        => \A n \in Names \ {last.name} :
                MapGet(tools, n) = MapGet(prev.tools, n)

RECURSIVE UnregisterEach(_, _, _, _)
UnregisterEach(R, names, i, mc) ==
    IF i > Len(names) THEN R
    ELSE UnregisterEach(UnregisterRun(R, names[i], mc), names, i + 1, mc)

C6_ReturnedContextIndependent ==
    [][last'.op \in {"mutateReturnedField", "mutateReturnedRoles"}
        => Content(Spread(authContext'), heap')
            = Content(Spread(authContext), heap)]_vars

\* The declared tools of plugin p whose name maps to a callable.
Resolved(p) ==
    { n \in DeclaredNames(p) : IsCallable(HandlersOf(p)[n]) }

\* The definition registerPlugin builds for the declaration of n in p.
PluginDef(p, n) ==
    LET decl == CHOOSE x \in { Declarations(p)[i] : i \in 1..Len(Declarations(p)) } :
                    x.name = n
    IN [name |-> n, description |-> decl.description,
        handler |-> HandlersOf(p)[n]]

\* C7: registerPlugin(plugin) never raises and registers exactly the declared
\* tools whose name has a callable handler: those are in the registry
\* afterwards and every other entry is as it was.
C7_RegisterPluginTotal ==
    last.op = "registerPlugin"
        => /\ ~last.raised
           /\ \A n \in Resolved(last.plugin) :
                MapGet(tools, n) = PluginDef(last.plugin, n)
           /\ \A n \in Names \ Resolved(last.plugin) :
                MapGet(tools, n) = MapGet(prev.tools, n)

\* C8: unregisterPlugin(plugin) leaves every tool whose name the plugin does
\* not declare in the registry with the definition it had.
C8_UnregisterPluginFrame ==
    last.op = "unregisterPlugin"
        => \A n \in Names \ DeclaredNames(last.plugin) :
                MapGet(tools, n) = MapGet(prev.tools, n)

\* A plugin is unloaded, one of its declared names is removed and a tool it
\* does not declare stays.
C8_Witness ==
    /\ last.op = "unregisterPlugin"
    /\ \E n \in DeclaredNames(last.plugin) : MapHas(prev.tools, n)
    /\ \E n \in Names \ DeclaredNames(last.plugin) :
            /\ MapHas(tools, n)
            /\ MapGet(tools, n) = MapGet(prev.tools, n)

C10_DivergeOnlyOnFailure ==
    SurfNames(surf) # KeySet(tools) => regFailed

\* C10, amended: the names the surface holds differ from the names in the
\* registry only if some registerTool call has failed or some registry
\* operation ran while the surface was absent.
C10_DivergeOnlyOnFailureOrAbsence ==
    SurfNames(surf) # KeySet(tools) => (regFailed \/ absentOp)

\* The surface holds a name the registry does not, after a registerTool call
\* that recorded the tool and then threw, the surface having been present at
\* every operation.
C10_Witness ==
    /\ SurfNames(surf) # KeySet(tools)
    /\ regFailed
    /\ ~absentOp

\* navigator.modelContext exists and its registerTool is callable.
CallableRegisterTool ==
    nav.hasNavigator /\ nav.hasModelContext /\ nav.registerTool = "function"

\* C11: the surface counts as present exactly when the navigator has a
\* modelContext whose registerTool is callable; isSupported() returns true
\* then and false in every other environment, without raising; when it is
\* false, register and unregister make no surface call and still update the
\* local registry.
C11_ProbeDecidesPresence ==
    /\ last.op = "isSupported" =>
            (last.mc = CallableRegisterTool /\ ~last.raised)
    /\ last.op \in {"register", "unregister", "clear"} =>
            last.mc = CallableRegisterTool
    /\ (last.op = "register" /\ ~CallableRegisterTool) =>
            /\ calls = <<>>
            /\ surf = prev.surf
            /\ ~last.raised
            /\ tools = MapSet(prev.tools, last.def)
    /\ (last.op = "unregister" /\ ~CallableRegisterTool) =>
            /\ calls = <<>>
            /\ surf = prev.surf
            /\ ~last.raised
            /\ tools = MapDelete(prev.tools, last.name)

\* A modelContext whose registerTool is a string: register adds locally and
\* calls nothing.
C11_Witness ==
    /\ last.op = "register"
    /\ nav.hasModelContext
    /\ nav.registerTool = "string"
    /\ ~MapHas(prev.tools, last.name)
    /\ MapHas(tools, last.name)
    /\ calls = <<>>

\* C12: register, unregister and clear complete without raising on every
\* surface that counts as present, whatever else it exposes.
C12_RegistryOperationsTotal ==
    (last.op \in {"register", "unregister", "clear"} /\ last.mc) => ~last.raised

\* Every invocation the state holds: those in flight and the one settled last.
Invocations ==
    { inFlight[k] : k \in DOMAIN inFlight } \cup {settled}

\* C13: sendMessage without text, and getConversation without sessionId,
\* fails with a message that names the missing parameter and issues no
\* outbound request.
C13_MissingParameterFailsBeforeRequest ==
    \A inv \in Invocations :
        /\ (inv.tool = "sendMessage" /\ Falsy(inv.input.text)) =>
                /\ inv.state = "rejected"
                /\ inv.message = Message("Parameter 'text' is required")
                /\ inv.requests = <<>>
                /\ inv.response = NoResponse
        /\ (inv.tool = "getConversation" /\ Falsy(inv.input.sessionId)) =>
                /\ inv.state = "rejected"
                /\ inv.message = Message("Parameter 'sessionId' is required")
                /\ inv.requests = <<>>
                /\ inv.response = NoResponse

\* getConversation was invoked without sessionId while another request waits.
C13_Witness ==
    /\ last.op = "begin"
    /\ settled.tool = "getConversation"
    /\ settled.input.sessionId = JsUndefined
    /\ settled.state = "rejected"
    /\ \E k \in DOMAIN inFlight : inFlight[k].state = "pending"

\* What the error text of a body is, when the body parses and has the field.
HasErrorText(body) == body.json # "unparseable" /\ body.hasError

\* C14: a response with a non-success status fails the invocation: with the
\* body's error text when the body parses and has an error field, with the
\* generic message carrying the numeric status when it parses and has none,
\* and with "Request failed" without a status when it does not parse.
C14_FailureMessageByBody ==
    (settled.response.kind = "response" /\ ~Ok(settled.response.status)) =>
        /\ settled.state = "rejected"
        /\ settled.message =
              IF settled.response.body.json = "unparseable"
              THEN Message("Request failed")
              ELSE IF HasErrorText(settled.response.body)
                   THEN Message(settled.response.body.error)
                   ELSE GenericMessage(settled.response.status)

\* Percent-decoding of a path segment, as the receiving server does it.
RECURSIVE Unescape(_)
Unescape(chars) ==
    IF chars = <<>> THEN <<>>
    ELSE IF Head(chars) = "%" /\ Len(chars) >= 3
         THEN <<CASE SubSeq(chars, 2, 3) = <<"2", "F">> -> "/"
                  [] SubSeq(chars, 2, 3) = <<"3", "F">> -> "?"
                  [] SubSeq(chars, 2, 3) = <<"2", "5">> -> "%"
                  [] OTHER -> "invalid">> \o Unescape(SubSeq(chars, 4, Len(chars)))
         ELSE <<Head(chars)>> \o Unescape(Tail(chars))

\* The characters that end a path segment.
IsOneSegment(chars) == \A i \in 1..Len(chars) : chars[i] \notin {"/", "?", "#"}

\* C17: sendMessage with a non-empty text issues one POST to the inject
\* endpoint of the session sessionId names, "default" when it is omitted,
\* with a body that carries exactly the message text.
C17_SendMessageRequest ==
    \A inv \in Invocations :
        (inv.tool = "sendMessage" /\ ~Falsy(inv.input.text)) =>
            /\ Len(inv.requests) = 1
            /\ inv.requests[1].method = "POST"
            /\ inv.requests[1].url.base = "/api"
            /\ inv.requests[1].url.resource = "sessions"
            /\ inv.requests[1].url.action = "inject"
            /\ inv.requests[1].url.query = JsUndefined
            /\ inv.requests[1].url.session.t = "string"
            /\ IsOneSegment(inv.requests[1].url.session.v)
            /\ Unescape(inv.requests[1].url.session.v) =
                    IF Falsy(inv.input.sessionId) THEN Default
                    ELSE inv.input.sessionId.v
            /\ inv.requests[1].body = InjectBody(inv.input.text.v)

\* One message waits for the session "a/b" and one for the default session.
C17_Witness ==
    /\ \E k \in DOMAIN inFlight :
            /\ inFlight[k].tool = "sendMessage"
            /\ inFlight[k].input.sessionId = JsString(Slashed)
    /\ \E k \in DOMAIN inFlight :
            /\ inFlight[k].tool = "sendMessage"
            /\ inFlight[k].input.sessionId = JsUndefined

\* fetch has rejected, or the response has a non-success status.
IsFailure(response) ==
    response.kind = "reject" \/ (response.kind = "response" /\ ~Ok(response.status))

\* C18: an invocation issues at most one outbound request; a failure is
\* not retried and reaches the caller as a failed result.
C18_OneRequestNoRetry ==
    /\ \A inv \in Invocations : Len(inv.requests) <= 1
    /\ \A k \in DOMAIN inFlight :
            inFlight[k] # NoInvocation =>
                (inFlight[k].state = "pending" /\ Len(inFlight[k].requests) = 1)
    /\ settled.state \in {"none", "resolved", "rejected"}
    /\ IsFailure(settled.response) =>
            (settled.state = "rejected" /\ Len(settled.requests) = 1)
    /\ settled.state = "resolved" =>
            (settled.response.kind = "response" /\ Ok(settled.response.status))

\* A request was answered with status 500 and its invocation has failed.
C18_Witness ==
    /\ last.op = "respond"
    /\ settled.response.kind = "response"
    /\ settled.response.status = 500
    /\ settled.state = "rejected"
    /\ Len(settled.requests) = 1

\* C15: an outbound request carries "Authorization: Bearer <token>" exactly
\* when the registry's context at the start of the invocation has a
\* non-empty token, and then it is that token, whether the context was set
\* before or after the tools were registered.
C15_BearerIffToken ==
    \A inv \in Invocations :
        \A i \in 1..Len(inv.requests) :
            LET token == Field(inv.startCtx, "token") IN
            IF token \in Tokens \ {""}
            THEN inv.requests[i].authorization =
                     [scheme |-> "Bearer", credentials |-> token]
            ELSE inv.requests[i].authorization.scheme = "none"

\* The tools were registered under one token and a request went out under
\* another, set afterwards.
C15_Witness ==
    /\ last.op = "begin"
    /\ Field(toolsCtx, "token") = "tok-123"
    /\ \E k \in DOMAIN inFlight :
            /\ inFlight[k].state = "pending"
            /\ inFlight[k].requests[1].authorization =
                   [scheme |-> "Bearer", credentials |-> "tok-abc"]

\* C16: with several invocations in flight, an invocation keeps the context
\* the registry had when it began, whatever setAuthContext sets later, and
\* an invocation that begins after a setAuthContext has the new context.
C16_InvocationKeepsItsContext ==
    /\ \A k \in DOMAIN inFlight :
            inFlight[k].state = "pending" =>
                /\ inFlight[k].auth = inFlight[k].startCtx
                /\ inFlight[k].requests =
                       <<DaemonRequest(inFlight[k].requests[1].url,
                                       inFlight[k].startCtx,
                                       inFlight[k].requests[1].method,
                                       inFlight[k].requests[1].body)>>
    /\ settled.state # "none" => settled.auth = settled.startCtx
    /\ last.op = "begin" =>
            \E inv \in Invocations :
                inv.tool = last.name /\ inv.auth = authContext

\* Two invocations are in flight; setAuthContext ran between their starts,
\* and the registry's context is that of the later one.
C16_Witness ==
    /\ last.op = "begin"
    /\ \E j, k \in DOMAIN inFlight :
            /\ inFlight[j].state = "pending"
            /\ inFlight[k].state = "pending"
            /\ inFlight[j].auth = [token |-> "tok-123"]
            /\ inFlight[k].auth = [token |-> "tok-abc"]
            /\ authContext = [token |-> "tok-abc"]

\* The session name a newSession invocation sent.
SentName(inv) == inv.requests[1].body.name

\* C19: any two newSession invocations, one after the other or at the same
\* time, send different generated session names.
C19_SessionNamesDiffer ==
    /\ \A j, k \in DOMAIN inFlight :
            (j # k /\ inFlight[j].tool = "newSession"
                   /\ inFlight[k].tool = "newSession") =>
                SentName(inFlight[j]) # SentName(inFlight[k])
    /\ \A k \in DOMAIN inFlight :
            (settled.tool = "newSession" /\ inFlight[k].tool = "newSession") =>
                SentName(settled) # SentName(inFlight[k])

C21_SecondLoadChangesNothing ==
    [][(/\ last.op = "plugin:loaded"
        /\ last'.op = "plugin:loaded"
        /\ last'.plugin = last.plugin) => tools' = tools]_vars

\* C22: setAuthContext(ctx) replaces the whole context: getAuthContext()
\* then returns exactly the fields of ctx, and no field of the previous
\* context that ctx does not carry survives.
C22_SetReplacesWholeContext ==
    /\ last.op = "setAuthContext" =>
            (DOMAIN authContext = DOMAIN last.ctx /\ authContext = last.ctx)
    /\ last.op = "getAuthContext" =>
            (DOMAIN got.val = DOMAIN authContext /\ got.val = authContext)

\* The context had a token when the tools were registered; it was then set
\* to a record without one, and read back.
C22_Witness ==
    /\ last.op = "getAuthContext"
    /\ Field(toolsCtx, "token") = "tok-123"
    /\ got.val = [userId |-> "before"]

\* C26: a wrapper the surface holds, whenever it is invoked, runs what the
\* registry holds for its name at that moment: not the definition captured
\* at its creation once the name was registered again or unregistered.
C26_WrapperRunsLiveDefinition ==
    last.op \in {"invoke", "execute"} => last.def = MapGet(tools, last.name)

\* C27: the registry's context, empty at construction, changes only by
\* setAuthContext: no register, unregister, clear, plugin operation or tool
\* invocation, also of a handler that writes to the context argument it was
\* given, changes what getAuthContext() returns.
C27_ContextChangesOnlyBySet ==
    [][last'.op \in {"register", "unregister", "clear", "registerPlugin",
                     "unregisterPlugin", "invoke", "execute"} =>
           Content(authContext', heap') = Content(authContext, heap)]_vars

\* The calls cs from the i-th on alternate per name, for a surface that holds
\* the names in held before them.
RECURSIVE Alternates(_, _, _)
Alternates(held, cs, i) ==
    IF i > Len(cs) THEN TRUE
    ELSE IF cs[i].fn = "registerTool"
         THEN /\ cs[i].name \notin held
              /\ Alternates(held \cup {cs[i].name}, cs, i + 1)
         ELSE /\ cs[i].name \in held
              /\ Alternates(held \ {cs[i].name}, cs, i + 1)

\* C28: with a surface present, registerTool(name) is never forwarded for a
\* name the surface already holds, and unregisterTool(name) never for a name
\* it does not hold.
C28_SurfaceCallsAlternate ==
    last.mc => Alternates(SurfNames(prev.surf), calls, 1)

\* The sequence s from its last element to its first.
Reverse(s) == [k \in 1..Len(s) |-> s[Len(s) + 1 - k]]

\* C23: shutdown is idempotent. Whatever number of shutdown calls follow an
\* init, one after the other, no registered cleanup is called twice, and once
\* the shutdown of a started server is over each of that init's three cleanups
\* has been called exactly once; a shutdown that finds nothing registered
\* calls nothing and catches nothing.
C23_ShutdownIdempotent ==
    /\ \A g \in Gens : \A k \in KindSet : ran[g][k] <= 1
    /\ \A g \in Gens :
         (Quiet /\ servers[g] = "closed") => \A k \in KindSet : ran[g][k] = 1
    /\ \A p \in Shutdowns :
         (procs[p].pc = "done" /\ procs[p].plan = <<>>) =>
             (procs[p].trace = <<>> /\ procs[p].caught = 0)

\* A shutdown call that found nothing, after an init and a shutdown that ran.
C23_Witness ==
    /\ last.op = "shutdown" /\ last.name = "nothing"
    /\ \E g \in Gens : servers[g] = "closed" /\ ran[g]["server"] = 1

\* C24: an init that finds no dist/ creates no server, registers no extension,
\* takes the config schema back and leaves the plugin uninitialized with an
\* empty cleanup list; none of its cleanups is ever called, and an init that
\* finds dist/ afterwards initializes as usual.
C24_MissingDistLeavesNothing ==
    /\ (last.op = "init" /\ last.name = "nodist") =>
          /\ pluginCtx = "null"
          /\ cleanups = <<>>
          /\ ~host.configSchema /\ ~host.extension
          /\ Open = {}
    /\ \A g \in Gens :
          servers[g] = "nodist" => \A k \in KindSet : ran[g][k] = 0
    /\ (last.op = "init" /\ last.name = "started") =>
          /\ pluginCtx = "host"
          /\ Len(cleanups) = Len(Kinds)
          /\ host.configSchema /\ host.extension
          /\ Cardinality(Open) = 1

\* An init with dist/ right after an init without it.
C24_Witness ==
    /\ last.op = "init" /\ last.name = "started"
    /\ servers[1] = "nodist" /\ servers[2] = "listening"

\* C25: a shutdown calls the cleanups from the last registered to the first;
\* every cleanup that fails is caught and logged and the others are still
\* called; when the shutdown is over the plugin is uninitialized.
C25_ShutdownReverseAndTolerant ==
    /\ \A p \in Shutdowns :
          procs[p].pc = "done" =>
              /\ procs[p].trace = Reverse(procs[p].plan)
              /\ procs[p].caught = procs[p].failed
              /\ procs[p].logged = procs[p].failed
    /\ (Quiet /\ last.op \in {"shutdown", "resume"}) =>
          (pluginCtx = "null" /\ cleanups = <<>>)

\* A finished shutdown whose server close reported an error.
C25_Witness ==
    \E p \in Shutdowns :
        /\ procs[p].pc = "done"
        /\ Len(procs[p].trace) = Len(Kinds)
        /\ procs[p].failed = 1 /\ procs[p].logged = 1
        /\ last.op = "resume"

\* C29: when init and shutdown calls overlap, every cleanup an init
\* registered is still called at most once.
C29_OverlapRunsCleanupsOnce ==
    \A g \in Gens : \A k \in KindSet : ran[g][k] <= 1

\* C30: at most one server the plugin started is listening at any time.
C30_AtMostOneServer == Cardinality(Listening) <= 1
====
